---- MODULE Spec2Model ----
(***************************************************************************)
(* A model of ChatBulkUI (src/src/content/main.ts, mirrored by             *)
(* src/content.js): the selection map, the action bar, the bulk-delete     *)
(* worker pool, the per-chat deletion sequence deleteViaUI and the host    *)
(* page it drives.  Chats are numbered 1..n; the href of chat k is the     *)
(* path "/c/k", so a chat id stands for its row, its href and its id.      *)
(*                                                                         *)
(* Every await on a timer (waitFor's poll, sleep, idleOrSleep) is a place  *)
(* where the single UI thread may run something else, so each is a         *)
(* separate location (pc) of a worker or of a run.  Time is not counted: a *)
(* bounded wait may time out at any poll that finds its predicate false.   *)
(***************************************************************************)
EXTENDS Integers, Sequences, FiniteSets, TLC

\* ---------------------------------------------------------------- bounds
\* Chats in the sidebar of the general specification.
NumItems == 2
\* Invocations of runBulkDelete that are followed.
MaxRuns == 2
\* opts.clickRetries as configured (the default, 8, only lengthens openMenu).
ClickRetries == 2
\* flashError timers pending at one time: a new one waits for an old one to fire.
MaxFlash == 1
\* Chats of the end-to-end scenarios.
ScenarioItems == 3
\* Math.max(1, Math.min(4, concurrency))
MinConc == 1
MaxConc == 4

VARIABLES
  opts,        \* this.opts: [enabled, stealth, concurrency]
  life,        \* "new" (constructed), "started", "stopped"
  host,        \* what the host page is like: [free, noMenu, testid, cancelFirst, newBtn]
  chats,       \* chats that exist in the host application
  rows,        \* chats whose row is rendered in the sidebar
  hasCb,       \* rows that carry a .cbm-checkbox
  checked,     \* rows whose checkbox is checked
  menu,        \* the chat whose options menu is open, 0 if none
  dialog,      \* the chat whose delete confirmation is open, 0 if none
  pend,        \* clicks the host has not rendered yet: [menu, dlg, del]
  here,        \* the chat location.href shows, 0 for a neutral view
  selected,    \* this.selected: the ids in insertion order
  bar,         \* the action bar: [running, loader, hidden, delDis, clrDis, allDis]
  status,      \* .cbm-status text
  pill,        \* .cbm-progress-pill: <<processed, total>>, <<0, 0>> when hidden
  stealthAttr, \* data-cbm-stealth on the document element
  timers,      \* pending setTimeout callbacks: [flash: <<[prev, ms]>>, clear: count]
  nruns,       \* invocations of runBulkDelete so far that took a snapshot
  run,         \* per invocation: [pc, items, nav, i, processed, ok, fail]
  wk,          \* per invocation and worker: [pc, it, att, ref]
  op,          \* the last operation asked of the engine: a checkbox toggle, a bar
               \*   button, or runBulkDelete returning at its precondition
  probe,       \* inputs handed to the constructor, normalizePath,
               \*   extractIdFromHref and waitFor, with what they returned
  log          \* what each invocation did: [snap: the selection when it was invoked,
               \*   claims: [w, k, id] in claim order, res: how the attempt of each
               \*   index ended, err: the last error thrown]

vars == <<opts, life, host, chats, rows, hasCb, checked, menu, dialog, pend, here,
          selected, bar, status, pill, stealthAttr, timers, nruns, run, wk, op, probe, log>>

hostVars == <<chats, rows, menu, dialog, pend, here>>
boxVars == <<hasCb, checked>>
viewVars == <<bar, status, pill, stealthAttr, timers>>
runVars == <<nruns, run, wk, log>>
fixed == <<opts, host, op, probe>>
setup == <<opts, host, probe>>

Runs == 1..MaxRuns
Workers == 1..MaxConc

\* ------------------------------------------------------------- helpers
Range(s) == {s[k] : k \in 1..Len(s)}

Without(s, x) == SelectSeq(s, LAMBDA y : y # x)

\* Map.set: a new key goes last, an old key keeps its place.
MapSet(s, x) == IF x \in Range(s) THEN s ELSE Append(s, x)

Min(a, b) == IF a < b THEN a ELSE b
Max(a, b) == IF a > b THEN a ELSE b

\* The texts of .cbm-status.
\* The failure count is always written.
ErrorsAlways(f) == <<f>>

\* ${fail ? `, ошибок ${fail}` : ''}: the failure count is written when it is not 0.
Errors(f) == IF f # 0 THEN <<f>> ELSE <<>>

NoText == [k |-> "none", a |-> 0, b |-> 0, c |-> <<>>]
ProgressText(p, t, f) == [k |-> "progress", a |-> p, b |-> t, c |-> Errors(f)]
DoneText(o, t, f) == [k |-> "done", a |-> o, b |-> t, c |-> Errors(f)]
WarnText(code) == [k |-> "warn", a |-> code, b |-> 0, c |-> <<>>]

\* Error codes of deleteViaUI; 0 is the generic waitFor timeout.
E_TIMEOUT == 0
E_ROW == 1
E_BTN == 2
E_MENU == 3
E_MENUITEM == 4
E_CONFIRM == 5
\* selectAll's "nothing to select"
E_NOTHING == 6

\* flashError's default delay, and the one selectAll passes
FlashMs == 1200
FlashNothingMs == 900

\* --------------------------------------------------------- constructor
\* Only the upper limit is applied.
ClampAbove(c) == Min(MaxConc, c)

Clamp(c) == Max(MinConc, Min(MaxConc, c))

\* ---------------------------------------------------------- action bar
\* updateBar: the buttons' disabled state and the bar's visibility follow the
\* selection size and the 'running' class, as of this call.
UpdateBar(b, sel) ==
  LET n == Len(sel) IN
  [b EXCEPT !.hidden = ~(b.running \/ n > 0),
            !.delDis = (~opts.enabled) \/ n = 0 \/ b.running,
            !.clrDis = (n = 0 \/ b.running),
            !.allDis = b.running]


\* setProgress
SetProgress(p, t) == IF t = 0 THEN <<0, 0>> ELSE <<p, t>>

\* No timer is set: the message would stay.
NoFlashTimer(tm, prev, ms) == tm

\* flashError(msg, ms): the text is replaced and a timer of ms remembers the
\* previous one.  The pending timers are kept in the order they were set.
FlashTimers(tm, prev, ms) == [tm EXCEPT !.flash = Append(@, [prev |-> prev, ms |-> ms])]

\* Room for another flashError timer.
CanFlash == Len(timers.flash) < MaxFlash

\* attachCheckboxes: every rendered row without a checkbox gets an unchecked one.
AttachCheckboxes(cbs, rws) == IF opts.enabled THEN cbs \cup rws ELSE cbs

\* An observer whose callback attaches nothing.
NotifyNothing(cbs, rws) == cbs

\* The MutationObserver's callback after a change of the tree (bindGlobal).
Notify(cbs, rws) == IF life # "new" /\ opts.enabled THEN AttachCheckboxes(cbs, rws) ELSE cbs

IdleWorker == [pc |-> "idle", it |-> 0, att |-> 0, ref |-> 0]
IdleRun == [pc |-> "idle", items |-> <<>>, nav |-> "none", i |-> 0, processed |-> 0,
            ok |-> 0, fail |-> 0]
DoneWorker == [pc |-> "done", it |-> 0, att |-> 0, ref |-> 0]
NoLog == [snap |-> <<>>, claims |-> <<>>, res |-> <<>>, err |-> 0]
\* Nothing was handed to the constructor or to the path functions.
NoProbe == [asked |-> <<>>, origin |-> FALSE, rest |-> <<>>, path |-> <<>>, id |-> <<>>,
            did |-> "none",
            wait |-> [timeout |-> 0, polls |-> <<>>, resolved |-> <<>>, rejected |-> 0,
                      armed |-> FALSE],
            btns |-> <<>>,
            watch |-> [ids |-> {}, rendered |-> {}, n |-> <<>>, queued |-> FALSE,
                       streak |-> 0]]

InitCommon ==
  /\ life = "new"
  /\ rows = chats
  /\ hasCb = {}
  /\ checked = {}
  /\ menu = 0
  /\ dialog = 0
  /\ pend = [menu |-> 0, dlg |-> 0, del |-> {}]
  /\ selected = <<>>
  /\ bar = [running |-> FALSE, loader |-> FALSE, hidden |-> TRUE,
            delDis |-> FALSE, clrDis |-> FALSE, allDis |-> FALSE]
  /\ status = NoText
  /\ pill = <<0, 0>>
  /\ stealthAttr = FALSE
  /\ timers = [flash |-> <<>>, clear |-> 0]
  /\ nruns = 0
  /\ run = [r \in Runs |-> IdleRun]
  /\ wk = [r \in Runs |-> [w \in Workers |-> IdleWorker]]
  /\ log = [r \in Runs |-> NoLog]
  /\ op = "none"

\* The general specification: any host, the engine as init() constructs it
\* except for the concurrency, which ranges over inputs below, in and above 1..4.
ConcInputs == {0, 1, 2, 3, 4, 10}

Init ==
  /\ chats = 1..NumItems
  /\ \E c \in ConcInputs :
       opts = [enabled |-> TRUE, stealth |-> TRUE, concurrency |-> Clamp(c)]
  /\ host = [free |-> TRUE, noMenu |-> {}, testid |-> TRUE, cancelFirst |-> TRUE,
             newBtn |-> TRUE]
  /\ here \in {0, 1}
  /\ probe = NoProbe
  /\ InitCommon

\* ----------------------------------------------------------- lifecycle
\* start(): attachCheckboxes, renderBar, bindGlobal, updateBar
Start ==
  /\ life = "new"
  /\ life' = "started"
  /\ hasCb' = (IF opts.enabled THEN AttachCheckboxes(hasCb, rows) ELSE {})
  /\ checked' = checked
  /\ selected' = (IF opts.enabled THEN selected ELSE <<>>)
  /\ bar' = UpdateBar(bar, selected')
  /\ UNCHANGED <<fixed, hostVars, status, pill, stealthAttr, timers, runVars>>


\* ------------------------------------------------------------ the user
RECURSIVE SortedSeq(_)
\* The rows in document order: the sidebar lists the chats by number.
SortedSeq(S) ==
  IF S = {} THEN <<>>
  ELSE LET m == CHOOSE x \in S : \A y \in S : x <= y IN <<m>> \o SortedSeq(S \ {m})

RECURSIVE SetAll(_, _)
\* selected.set(id, ...) for each row in turn
SetAll(sel, rs) == IF rs = <<>> THEN sel ELSE SetAll(MapSet(sel, Head(rs)), Tail(rs))

\* The change listener of a checkbox (attachCheckboxes): the user ticks or
\* unticks the checkbox of row t.
ToggleCheckbox(t) ==
  /\ t \in hasCb
  /\ checked' = (IF t \in checked THEN checked \ {t} ELSE checked \cup {t})
  /\ selected' = (IF t \in checked THEN Without(selected, t) ELSE MapSet(selected, t))
  /\ bar' = UpdateBar(bar, selected')
  /\ op' = "toggle"
  /\ UNCHANGED <<setup, life, hostVars, hasCb, status, pill, stealthAttr, timers, runVars>>

\* The map is emptied and the checkboxes are left as they are.
ClearSelectionMapOnly ==
  /\ life # "new" /\ ~bar.hidden /\ ~bar.clrDis
  /\ selected' = <<>>
  /\ bar' = UpdateBar(bar, selected')
  /\ op' = "clear"
  /\ UNCHANGED <<setup, life, hostVars, boxVars, status, pill, stealthAttr, timers, runVars>>

\* clearSelection, from the bar's "clear" button
ClearSelection ==
  /\ life # "new" /\ ~bar.hidden /\ ~bar.clrDis
  /\ checked' = {}
  /\ selected' = <<>>
  /\ bar' = UpdateBar(bar, selected')
  /\ op' = "clear"
  /\ UNCHANGED <<setup, life, hostVars, hasCb, status, pill, stealthAttr, timers, runVars>>

\* selectAll, from the bar's "select all" button
SelectAll ==
  /\ life # "new" /\ ~bar.hidden /\ ~bar.allDis
  /\ LET cbs == IF rows \subseteq hasCb THEN hasCb ELSE AttachCheckboxes(hasCb, rows)
         any == (rows \cap cbs) \ checked
     IN /\ hasCb' = cbs
        /\ checked' = checked \cup (rows \cap cbs)
        /\ selected' = SetAll(selected, SortedSeq(rows))
        /\ bar' = UpdateBar(bar, selected')
        /\ IF any = {}
             THEN /\ CanFlash
                  /\ status' = WarnText(E_NOTHING)
                  /\ timers' = FlashTimers(timers, status, FlashNothingMs)
             ELSE UNCHANGED <<status, timers>>
  /\ op' = "selectAll"
  /\ UNCHANGED <<setup, life, hostVars, pill, stealthAttr, runVars>>

\* ------------------------------------------------------------ the host
\* The host renders the menu of the last options button that was clicked.
\* One menu is open at a time (the menus are Radix menus, main.ts:589).
HostOpenMenu ==
  /\ pend.menu # 0
  /\ menu' = (IF pend.menu \in rows THEN pend.menu ELSE menu)
  /\ pend' = [pend EXCEPT !.menu = 0]
  /\ hasCb' = Notify(hasCb, rows)
  /\ UNCHANGED <<fixed, life, chats, rows, dialog, here, checked, selected, viewVars, runVars>>

\* The host renders the confirmation dialog asked for by a click on "delete".
HostOpenDialog ==
  /\ pend.dlg # 0
  /\ dialog' = pend.dlg
  /\ pend' = [pend EXCEPT !.dlg = 0]
  /\ hasCb' = Notify(hasCb, rows)
  /\ UNCHANGED <<fixed, life, chats, rows, menu, here, checked, selected, viewVars, runVars>>

\* The host deletes a chat whose deletion was confirmed: its row leaves the tree.
HostDelete(t) ==
  /\ t \in pend.del
  /\ chats' = chats \ {t}
  /\ rows' = rows \ {t}
  /\ pend' = [pend EXCEPT !.del = @ \ {t}]
  /\ hasCb' = Notify(hasCb \ {t}, rows')
  /\ checked' = checked \ {t}
  /\ UNCHANGED <<fixed, life, menu, dialog, here, selected, viewVars, runVars>>

\* The host takes a row out of the tree (virtualization, a collapsed sidebar).
HostRemoveRow(t) ==
  /\ host.free
  /\ t \in rows
  /\ rows' = rows \ {t}
  /\ hasCb' = Notify(hasCb \ {t}, rows')
  /\ checked' = checked \ {t}
  /\ UNCHANGED <<fixed, life, chats, menu, dialog, pend, here, selected, viewVars, runVars>>

\* The host renders the row of a chat again: a new element, without a checkbox
\* until the observer's callback has run.
HostAddRow(t) ==
  /\ host.free
  /\ t \in chats \ rows
  /\ rows' = rows \cup {t}
  /\ hasCb' = Notify(hasCb, rows')
  /\ UNCHANGED <<fixed, life, chats, menu, dialog, pend, here, checked, selected, viewVars, runVars>>

\* The host (or the user) closes the open menu or dialog.
HostClose ==
  /\ host.free
  /\ menu # 0 \/ dialog # 0
  /\ \/ menu # 0 /\ menu' = 0 /\ dialog' = dialog
     \/ dialog # 0 /\ dialog' = 0 /\ menu' = menu
  /\ hasCb' = Notify(hasCb, rows)
  /\ UNCHANGED <<fixed, life, chats, rows, pend, here, checked, selected, viewVars, runVars>>

\* No click is waiting for the host to render its effect.
Quiescent == pend.menu = 0 /\ pend.dlg = 0 /\ pend.del = {}

\* A wait without a deadline.
WaitsForever == FALSE

\* A bounded wait whose predicate is false may run out.  A host that answers
\* within the timeouts has answered every click before a wait runs out.
CanTimeout == host.free \/ Quiescent


\* ------------------------------------------------------- runBulkDelete
\* const items = [...this.selected.entries()].map(...): a copy, in the map's order
Snapshot(sel) == sel

\* A worker loop that reads the live selection: the worker leaves when the next
\* item of the snapshot is no longer selected.
WorkerLoopLive(w, st) ==
  IF st.run.i < Len(st.run.items) /\ st.run.items[st.run.i + 1] \in Range(selected)
    THEN LET k == st.run.i + 1 IN
         [run |-> [st.run EXCEPT !.i = k],
          wk |-> [st.wk EXCEPT ![w] = [pc |-> "row", it |-> k, att |-> 0, ref |-> 0]],
          log |-> [st.log EXCEPT !.claims =
                     Append(@, [w |-> w, k |-> k, id |-> st.run.items[k]])]]
    ELSE [st EXCEPT !.wk[w] = [pc |-> "done", it |-> 0, att |-> 0, ref |-> 0]]

\* A worker loop that a failure ends: the worker leaves once an attempt has failed.
WorkerLoopAbort(w, st) ==
  IF st.run.i < Len(st.run.items) /\ st.run.fail = 0
    THEN LET k == st.run.i + 1 IN
         [run |-> [st.run EXCEPT !.i = k],
          wk |-> [st.wk EXCEPT ![w] = [pc |-> "row", it |-> k, att |-> 0, ref |-> 0]],
          log |-> [st.log EXCEPT !.claims =
                     Append(@, [w |-> w, k |-> k, id |-> st.run.items[k]])]]
    ELSE [st EXCEPT !.wk[w] = [pc |-> "done", it |-> 0, att |-> 0, ref |-> 0]]

\* The top of a worker's loop: while (i < items.length) { const it = items[i++]; ...
\* st is [run, wk, log] of one invocation.  The worker claims the next index and
\* starts deleteViaUI on it, or leaves the loop.
WorkerLoop(w, st) ==
  IF st.run.i < Len(st.run.items)
    THEN LET k == st.run.i + 1 IN
         [run |-> [st.run EXCEPT !.i = k],
          wk |-> [st.wk EXCEPT ![w] = [pc |-> "row", it |-> k, att |-> 0, ref |-> 0]],
          log |-> [st.log EXCEPT !.claims =
                     Append(@, [w |-> w, k |-> k, id |-> st.run.items[k]])]]
    ELSE [st EXCEPT !.wk[w] = DoneWorker]

RECURSIVE LaunchAllFour(_, _)
\* A worker for each of the four places, whatever the configured concurrency.
LaunchAllFour(w, st) ==
  IF w > MaxConc THEN st ELSE LaunchAllFour(w + 1, WorkerLoop(w, st))

RECURSIVE LaunchAll(_, _)
\* Promise.all(Array.from({ length: concurrency }, () => worker())): each worker
\* runs to its first await before the next one is created.
LaunchAll(w, st) ==
  IF w > opts.concurrency THEN st ELSE LaunchAll(w + 1, WorkerLoop(w, st))

\* runBulkDelete from "let processed = 0" to the launch of the workers, for the
\* invocation whose record (with its items) is rn and whose log is lg.
Begin(rn, lg) ==
  LET total == Len(rn.items)
      st == LaunchAll(1, [run |-> [rn EXCEPT !.pc = "pool"],
                          wk |-> [w \in Workers |-> IdleWorker],
                          log |-> [lg EXCEPT !.res = [k \in 1..total |-> "none"]]])
  IN [run |-> st.run, wk |-> st.wk, log |-> st.log,
      bar |-> UpdateBar([bar EXCEPT !.running = TRUE, !.loader = TRUE], selected),
      pill |-> SetProgress(0, total),
      status |-> ProgressText(0, total, 0),
      stealthAttr |-> (opts.stealth \/ stealthAttr)]

\* An invocation that goes on whatever the engine's state and the selection are.
CanInvokeAnyway == nruns < MaxRuns

\* runBulkDelete can take its snapshot: the engine is enabled and something is
\* selected (and the model still follows new invocations).
CanInvoke == opts.enabled /\ selected # <<>> /\ nruns < MaxRuns

\* The guard never finds the location among the snapshot.
NeverOnSelected(h, items) == FALSE

\* ensureNotOnSelected's test: the location is the page of a chat of the snapshot.
OnSelected(h, items) == h \in Range(items)

\* runBulkDelete up to its first suspension.  ensureNotOnSelected returns at
\* once unless the current location is a selected chat; then it leaves that chat
\* and waits for the sidebar to show a row, which needs no wait if one is there.
Invoked ==
  LET r == nruns + 1
      items == Snapshot(selected)
      on == OnSelected(here, items)
      nav == IF ~on THEN "none" ELSE IF host.newBtn THEN "newchat" ELSE "pushstate"
      rn == [IdleRun EXCEPT !.items = items, !.nav = nav]
      lg == [NoLog EXCEPT !.snap = selected]
      b == Begin(rn, lg)
  IN IF on /\ rows = {}
       THEN [here |-> 0, nruns |-> r,
             run |-> [run EXCEPT ![r] = [rn EXCEPT !.pc = "guard"]],
             wk |-> wk, log |-> [log EXCEPT ![r] = lg], bar |-> bar, pill |-> pill, status |-> status,
             stealthAttr |-> stealthAttr]
       ELSE [here |-> IF on THEN 0 ELSE here, nruns |-> r,
             run |-> [run EXCEPT ![r] = b.run],
             wk |-> [wk EXCEPT ![r] = b.wk],
             log |-> [log EXCEPT ![r] = b.log],
             bar |-> b.bar, pill |-> b.pill, status |-> b.status,
             stealthAttr |-> b.stealthAttr]

\* The user clicks the bar's "delete" button.
ClickDelete ==
  /\ life # "new" /\ ~bar.hidden /\ ~bar.delDis
  /\ CanInvoke
  /\ LET v == Invoked IN
       /\ here' = v.here /\ nruns' = v.nruns /\ run' = v.run /\ wk' = v.wk /\ log' = v.log
       /\ bar' = v.bar /\ pill' = v.pill /\ status' = v.status /\ stealthAttr' = v.stealthAttr
  /\ op' = "run"
  /\ UNCHANGED <<setup, life, chats, rows, menu, dialog, pend, boxVars, selected, timers>>

\* runBulkDelete called as a method, whatever the bar shows: it returns at once
\* when the engine is disabled or nothing is selected, and goes on as after a
\* click otherwise.
CallRunBulkDelete ==
  \/ /\ ~opts.enabled \/ Snapshot(selected) = <<>>
     /\ op' = "noop"
     /\ UNCHANGED <<setup, life, hostVars, boxVars, selected, viewVars, runVars>>
  \/ /\ CanInvoke
     /\ LET v == Invoked IN
          /\ here' = v.here /\ nruns' = v.nruns /\ run' = v.run /\ wk' = v.wk /\ log' = v.log
          /\ bar' = v.bar /\ pill' = v.pill /\ status' = v.status /\ stealthAttr' = v.stealthAttr
     /\ op' = "run"
     /\ UNCHANGED <<setup, life, chats, rows, menu, dialog, pend, boxVars, selected, timers>>

\* ensureNotOnSelected's waitSidebarReady(4000) ends: a row is there, or the
\* 4000 ms are over.  The run goes on either way.
GuardDone(r) ==
  /\ run[r].pc = "guard"
  /\ rows # {} \/ CanTimeout
  /\ LET b == Begin(run[r], log[r]) IN
       /\ run' = [run EXCEPT ![r] = b.run]
       /\ wk' = [wk EXCEPT ![r] = b.wk]
       /\ log' = [log EXCEPT ![r] = b.log]
       /\ bar' = b.bar /\ pill' = b.pill /\ status' = b.status
       /\ stealthAttr' = b.stealthAttr
  /\ UNCHANGED <<fixed, life, hostVars, boxVars, selected, timers, nruns>>


\* --------------------------------------------------------- deleteViaUI
\* The chat worker w of invocation r is deleting.
Target(r, w) == run[r].items[wk[r][w].it]

At(r, w, loc) == run[r].pc = "pool" /\ wk[r][w].pc = loc

\* A step of a worker that changes nothing but the worker's own place.
Goto(r, w, loc) ==
  /\ wk' = [wk EXCEPT ![r][w].pc = loc]
  /\ UNCHANGED <<fixed, life, hostVars, boxVars, selected, viewVars, nruns, run, log>>

\* document.querySelector('button.btn-danger') finds the bar's own "delete"
\* button (renderBar gives it the classes btn btn-danger) once the bar is rendered.
BAR == -1
BarRendered == life # "new"

\* findDeleteMenuItem: the "delete" entry of the open menu, 0 (null) if none
FindDeleteMenuItem == menu

\* findConfirmButton: the dialog's confirm button (by test id, or by its text),
\* else the first button.btn-danger of the document, else 0 (null)
FindConfirmButton == IF dialog # 0 THEN dialog ELSE IF BarRendered THEN BAR ELSE 0

\* openMenu's predicate: the menu labelled by this button, or any open menu
MenuSeen(t) == menu = t \/ menu # 0

\* safeCloseMenus: Escape if a menu is open; if the dialog's confirm button is
\* found by its test id, a click on the dialog's first button, which is its
\* cancel button or, in a dialog that lists the confirm button first, that one.
SafeCloseMenus ==
  LET found == dialog # 0 /\ host.testid IN
  [menu |-> 0,
   dialog |-> IF found THEN 0 ELSE dialog,
   pend |-> IF found /\ ~host.cancelFirst
              THEN [pend EXCEPT !.del = @ \cup {dialog}] ELSE pend]

\* A worker loop that counts an attempt as processed only after a success.
CountedInTry(rn, success) ==
  [rn EXCEPT !.ok = IF success THEN @ + 1 ELSE @,
             !.fail = IF success THEN @ ELSE @ + 1,
             !.processed = IF success THEN @ + 1 ELSE @]

\* ok++ or fail++, then processed++ in the finally block
Counted(rn, success) ==
  [rn EXCEPT !.ok = IF success THEN @ + 1 ELSE @,
             !.fail = IF success THEN @ ELSE @ + 1,
             !.processed = @ + 1]

\* A finally block without this.selected.delete.
DeselectNothing(sel, id) == sel

\* this.selected.delete(it.id)
Deselect(sel, id) == Without(sel, id)

\* const cb = rowLive?.querySelector('.cbm-checkbox'); if (cb) cb.checked = false
Uncheck(chk, id) == IF id \in rows /\ id \in hasCb THEN chk \ {id} ELSE chk

\* The end of an attempt in the worker's loop: ok++ after deleteViaUI returned
\* (its last statement is safeCloseMenus), or the catch block (fail++, flashError,
\* safeCloseMenus); then the finally block up to its await of idleOrSleep.
Finish(r, w, success, code) ==
  LET id == Target(r, w)
      total == Len(run[r].items)
      rn == Counted(run[r], success)
      sc == SafeCloseMenus
  IN /\ success \/ CanFlash
     /\ run' = [run EXCEPT ![r] = rn]
     /\ wk' = [wk EXCEPT ![r][w].pc = "stagger"]
     /\ log' = [log EXCEPT ![r].res[wk[r][w].it] = IF success THEN "ok" ELSE "fail",
                            ![r].err = IF success THEN @ ELSE code]
     /\ menu' = sc.menu /\ dialog' = sc.dialog /\ pend' = sc.pend
     /\ timers' = (IF success THEN timers ELSE FlashTimers(timers, status, FlashMs))
     /\ selected' = Deselect(selected, id)
     /\ checked' = Uncheck(checked, id)
     /\ status' = ProgressText(rn.processed, total, rn.fail)
     /\ pill' = SetProgress(rn.processed, total)
     /\ bar' = UpdateBar(bar, selected')
     /\ hasCb' = Notify(hasCb, rows)
     /\ UNCHANGED <<fixed, life, chats, rows, here, stealthAttr, nruns>>

\* LocateRow: waitFor(() => findRowByHref(href), 3000)
LocateRow(r, w) ==
  /\ At(r, w, "row")
  /\ \/ Target(r, w) \in rows /\ Goto(r, w, "btn")
     \/ /\ Target(r, w) \notin rows /\ CanTimeout
        /\ Finish(r, w, FALSE, E_ROW)

\* LocateTrigger: waitFor(() => findOptionsButton(row), 1500).  The row found
\* has an options button if the host keeps its contract.
LocateTrigger(r, w) ==
  /\ At(r, w, "btn")
  /\ \/ Goto(r, w, "click")
     \/ /\ host.free
        /\ Finish(r, w, FALSE, E_BTN)

\* ScrollAndHover and one attempt of openMenu: scrollIntoViewSmart, realClick(btn).
\* The host takes the click if the button is still in the tree.
ClickTrigger(r, w) ==
  /\ At(r, w, "click")
  /\ pend' = (IF Target(r, w) \in rows /\ Target(r, w) \notin host.noMenu
                THEN [pend EXCEPT !.menu = Target(r, w)] ELSE pend)
  /\ wk' = [wk EXCEPT ![r][w].pc = "menu"]
  /\ UNCHANGED <<fixed, life, chats, rows, menu, dialog, here, boxVars, selected, viewVars,
                 nruns, run, log>>

\* An openMenu whose loop has no limit: it clicks again after every wait that
\* saw no menu.
AwaitMenuEndless(r, w) ==
  /\ At(r, w, "menu")
  /\ \/ MenuSeen(Target(r, w)) /\ Goto(r, w, "del")
     \/ /\ ~MenuSeen(Target(r, w)) /\ CanTimeout
        /\ wk' = [wk EXCEPT ![r][w].att = @ + 1, ![r][w].pc = "click"]
        /\ UNCHANGED <<fixed, life, hostVars, boxVars, selected, viewVars, nruns, run, log>>

\* openMenu's waitFor(menu, 250): the menu is seen, or the attempt is over and
\* after sleep(clickRetryDelay) the next one starts, or the loop ends.
AwaitMenu(r, w) ==
  /\ At(r, w, "menu")
  /\ \/ MenuSeen(Target(r, w)) /\ Goto(r, w, "del")
     \/ /\ ~MenuSeen(Target(r, w)) /\ CanTimeout
        /\ wk' = [wk EXCEPT ![r][w].att = @ + 1,
                            ![r][w].pc = IF wk[r][w].att + 1 < ClickRetries
                                           THEN "click" ELSE "omend"]
        /\ UNCHANGED <<fixed, life, hostVars, boxVars, selected, viewVars, nruns, run, log>>

\* An openMenu that returns after its loop whether a menu is open or not.
OpenMenuEndAnyway(r, w) == At(r, w, "omend") /\ Goto(r, w, "del")

\* openMenu after its loop: any open menu will do, else E_MENU.
OpenMenuEnd(r, w) ==
  /\ At(r, w, "omend")
  /\ \/ menu # 0 /\ Goto(r, w, "del")
     \/ menu = 0 /\ Finish(r, w, FALSE, E_MENU)

\* LocateDeleteEntry: waitFor(() => findDeleteMenuItem(), maxMenuWaitMs)
LocateDeleteEntry(r, w) ==
  /\ At(r, w, "del")
  /\ \/ /\ FindDeleteMenuItem # 0
        /\ wk' = [wk EXCEPT ![r][w].pc = "delclick", ![r][w].ref = FindDeleteMenuItem]
        /\ UNCHANGED <<fixed, life, hostVars, boxVars, selected, viewVars, nruns, run, log>>
     \/ /\ FindDeleteMenuItem = 0 /\ CanTimeout
        /\ Finish(r, w, FALSE, E_MENUITEM)

\* ClickDelete: realClick(del).  The entry found belongs to the menu of chat
\* ref; if that menu is still open the host closes it and opens the dialog.
ClickDeleteEntry(r, w) ==
  /\ At(r, w, "delclick")
  /\ IF menu = wk[r][w].ref
       THEN /\ menu' = 0
            /\ pend' = [pend EXCEPT !.dlg = wk[r][w].ref]
       ELSE UNCHANGED <<menu, pend>>
  /\ wk' = [wk EXCEPT ![r][w].pc = "conf", ![r][w].ref = 0]
  /\ hasCb' = Notify(hasCb, rows)
  /\ UNCHANGED <<fixed, life, chats, rows, dialog, here, checked, selected, viewVars,
                 nruns, run, log>>

\* LocateConfirm: waitFor(() => findConfirmButton(), maxDialogWaitMs)
LocateConfirm(r, w) ==
  /\ At(r, w, "conf")
  /\ IF FindConfirmButton # 0
       THEN /\ wk' = [wk EXCEPT ![r][w].pc = "confclick", ![r][w].ref = FindConfirmButton]
            /\ UNCHANGED <<fixed, life, hostVars, boxVars, selected, viewVars, nruns, run, log>>
       ELSE /\ CanTimeout
            /\ Finish(r, w, FALSE, E_CONFIRM)

\* ClickConfirm: realClick(confirm).  A dialog's confirm button, if the dialog is
\* still open, has the host close it and delete its chat.  The bar's own "delete"
\* button, unless it is disabled, runs its click listener: runBulkDelete.
ClickConfirm(r, w) ==
  /\ At(r, w, "confclick")
  /\ IF wk[r][w].ref = BAR
       THEN IF ~bar.delDis /\ CanInvoke
              THEN LET v == Invoked IN
                     /\ here' = v.here /\ nruns' = v.nruns /\ run' = v.run /\ log' = v.log
                     /\ wk' = [v.wk EXCEPT ![r][w].pc = "gone", ![r][w].ref = 0]
                     /\ bar' = v.bar /\ pill' = v.pill /\ status' = v.status
                     /\ stealthAttr' = v.stealthAttr
                     /\ UNCHANGED <<fixed, life, chats, rows, menu, dialog, pend, boxVars,
                                    selected, timers>>
              ELSE /\ wk' = [wk EXCEPT ![r][w].pc = "gone", ![r][w].ref = 0]
                   /\ UNCHANGED <<fixed, life, hostVars, boxVars, selected, viewVars,
                                  nruns, run, log>>
       ELSE /\ IF dialog = wk[r][w].ref
                 THEN /\ dialog' = 0
                      /\ pend' = [pend EXCEPT !.del = @ \cup {wk[r][w].ref}]
                 ELSE UNCHANGED <<dialog, pend>>
            /\ wk' = [wk EXCEPT ![r][w].pc = "gone", ![r][w].ref = 0]
            /\ hasCb' = Notify(hasCb, rows)
            /\ UNCHANGED <<fixed, life, chats, rows, menu, here, checked, selected, viewVars,
                           nruns, run, log>>

\* An AwaitRowGone whose timeout is swallowed: the attempt goes on to Settle.
AwaitRowGoneAnyway(r, w) ==
  /\ At(r, w, "gone")
  /\ Target(r, w) \notin rows \/ CanTimeout
  /\ Goto(r, w, "settle")

\* An AwaitRowGone whose timeout is caught and thrown again under a code of
\* deleteViaUI.
AwaitRowGoneNamed(r, w) ==
  /\ At(r, w, "gone")
  /\ \/ Target(r, w) \notin rows /\ Goto(r, w, "settle")
     \/ /\ Target(r, w) \in rows /\ CanTimeout
        /\ Finish(r, w, FALSE, E_CONFIRM)

\* AwaitRowGone: waitFor(() => !findRowByHref(href), 8000); its timeout is not
\* caught in deleteViaUI, so the attempt ends with the waitFor's own error.
AwaitRowGone(r, w) ==
  /\ At(r, w, "gone")
  /\ \/ Target(r, w) \notin rows /\ Goto(r, w, "settle")
     \/ /\ Target(r, w) \in rows /\ CanTimeout
        /\ Finish(r, w, FALSE, E_TIMEOUT)

\* Settle and CloseStraysIfAny: sleep(afterDeleteWaitMs), safeCloseMenus, return.
Settle(r, w) ==
  /\ At(r, w, "settle")
  /\ Finish(r, w, TRUE, 0)


\* ------------------------------------------------- the end of the pool
\* A finally block that hides the loader and leaves the 'running' class.
FinalizedLoaderOnly(b) == [b EXCEPT !.loader = FALSE]

\* The finally block of runBulkDelete, after attachCheckboxes and updateBar:
\* the 'running' class goes without another updateBar, and a timer is set.
Finalized(b) == [b EXCEPT !.running = FALSE, !.loader = FALSE]

\* A finally block that leaves the stealth attribute on the document element.
FinalizeKeepStealth(r, rn) ==
  /\ run' = [run EXCEPT ![r] = [rn EXCEPT !.pc = "done"]]
  /\ hasCb' = AttachCheckboxes(hasCb, rows)
  /\ bar' = Finalized(UpdateBar(bar, selected))
  /\ stealthAttr' = stealthAttr
  /\ timers' = [timers EXCEPT !.clear = @ + 1]

\* runBulkDelete after waitSidebarReady: attachCheckboxes, updateBar, finally.
Finalize(r, rn) ==
  /\ run' = [run EXCEPT ![r] = [rn EXCEPT !.pc = "done"]]
  /\ hasCb' = AttachCheckboxes(hasCb, rows)
  /\ bar' = Finalized(UpdateBar(bar, selected))
  /\ stealthAttr' = FALSE
  /\ timers' = [timers EXCEPT !.clear = @ + 1]

\* The worker wakes from idleOrSleep(staggerMs) and is at the top of its loop.
\* When it leaves the loop as the last worker, Promise.all resolves: the summary
\* is published and waitSidebarReady() is awaited, which needs no wait if the
\* sidebar shows a row.
WorkerNext(r, w) ==
  /\ At(r, w, "stagger")
  /\ LET st == WorkerLoop(w, [run |-> run[r], wk |-> wk[r], log |-> log[r]])
         last == \A x \in Workers : st.wk[x].pc \in {"done", "idle"}
     IN /\ wk' = [wk EXCEPT ![r] = st.wk]
        /\ log' = [log EXCEPT ![r] = st.log]
        /\ IF ~last
             THEN /\ run' = [run EXCEPT ![r] = st.run]
                  /\ UNCHANGED <<hasCb, bar, stealthAttr, timers, status>>
             ELSE /\ status' = DoneText(st.run.ok, Len(st.run.items), st.run.fail)
                  /\ IF rows # {}
                       THEN Finalize(r, st.run)
                       ELSE /\ run' = [run EXCEPT ![r] = [st.run EXCEPT !.pc = "final"]]
                            /\ UNCHANGED <<hasCb, bar, stealthAttr, timers>>
  /\ UNCHANGED <<fixed, life, hostVars, checked, selected, pill, nruns>>

\* waitSidebarReady(3500) after the summary ends: a row is there, or time is up.
FinalWait(r) ==
  /\ run[r].pc = "final"
  /\ rows # {} \/ CanTimeout
  /\ Finalize(r, run[r])
  /\ UNCHANGED <<fixed, life, hostVars, checked, selected, status, pill, nruns, wk, log>>

\* ---------------------------------------------------------------- timers
\* setTimeout(() => { setStatus(''); setProgress(0, 0); updateBar(); }, 500)
ClearTimer ==
  /\ timers.clear > 0
  /\ timers' = [timers EXCEPT !.clear = @ - 1]
  /\ status' = NoText
  /\ pill' = SetProgress(0, 0)
  /\ bar' = UpdateBar(bar, selected)
  /\ UNCHANGED <<fixed, life, hostVars, boxVars, selected, stealthAttr, runVars>>

\* Timers fire in the order of their deadlines: one set earlier with a delay no
\* longer than this one's fires first.
Due(k) == \A j \in 1..(k - 1) : timers.flash[j].ms > timers.flash[k].ms

DropAt(s, k) == SubSeq(s, 1, k - 1) \o SubSeq(s, k + 1, Len(s))

\* flashError's setTimeout(() => { if (text starts with the warning sign) text = prev })
FlashTimer(k) ==
  /\ k \in 1..Len(timers.flash) /\ Due(k)
  /\ timers' = [timers EXCEPT !.flash = DropAt(@, k)]
  /\ status' = (IF status.k = "warn" THEN timers.flash[k].prev ELSE status)
  /\ UNCHANGED <<fixed, life, hostVars, boxVars, selected, bar, pill, stealthAttr, runVars>>

\* ------------------------------------------------------- specification
WorkerStep(r, w) ==
  \/ LocateRow(r, w)
  \/ LocateTrigger(r, w)
  \/ ClickTrigger(r, w)
  \/ AwaitMenu(r, w)
  \/ OpenMenuEnd(r, w)
  \/ LocateDeleteEntry(r, w)
  \/ ClickDeleteEntry(r, w)
  \/ LocateConfirm(r, w)
  \/ ClickConfirm(r, w)
  \/ AwaitRowGone(r, w)
  \/ Settle(r, w)
  \/ WorkerNext(r, w)

PoolStep ==
  \/ \E r \in Runs, w \in Workers : WorkerStep(r, w)
  \/ ClearTimer
  \/ \E k \in 1..Len(timers.flash) : FlashTimer(k)

EngineStep ==
  \/ \E r \in Runs : GuardDone(r) \/ FinalWait(r)
  \/ PoolStep

\* The host renders what the clicks it received ask for.
HostStep ==
  \/ HostOpenMenu
  \/ HostOpenDialog
  \/ \E t \in chats : HostDelete(t)

\* The user makes the selection before the first run.
Choose(t) == nruns = 0 /\ ToggleCheckbox(t)

\* Rows leave the sidebar before the first run.
Collapse(t) == nruns = 0 /\ HostRemoveRow(t)

\* The general specification: the user selects and clicks "delete" (again, while
\* the button lets them); the host answers each click late, or not at all.
Next ==
  \/ Start
  \/ \E t \in 1..NumItems : Choose(t) \/ Collapse(t)
  \/ ClickDelete
  \/ EngineStep
  \/ HostStep

Spec == Init /\ [][Next]_vars

\* --- termination: timers and idle callbacks fire, the host owes nothing.
FairInit ==
  /\ chats = 1..NumItems
  /\ \E c \in {1, 2} :
       opts = [enabled |-> TRUE, stealth |-> TRUE, concurrency |-> Clamp(c)]
  /\ host = [free |-> TRUE, noMenu |-> {}, testid |-> TRUE, cancelFirst |-> TRUE,
             newBtn |-> TRUE]
  /\ here = 1
  /\ probe = NoProbe
  /\ InitCommon

FairSpec == FairInit /\ [][Next]_vars /\ WF_vars(EngineStep)

\* --- a user who keeps ticking while one run is in flight, on one worker.
InFlight == \E r \in Runs : run[r].pc \in {"guard", "pool", "final"}

BusyInit ==
  /\ chats = 1..NumItems
  /\ opts = [enabled |-> TRUE, stealth |-> TRUE, concurrency |-> Clamp(1)]
  /\ host = [free |-> TRUE, noMenu |-> {}, testid |-> TRUE, cancelFirst |-> TRUE,
             newBtn |-> TRUE]
  /\ here \in {0, 1}
  /\ probe = NoProbe
  /\ InitCommon

\* The first click on "delete".
FirstClick == nruns = 0 /\ ClickDelete

\* The user ticks and unticks rows, or clears the selection, during the run.
Meddle ==
  /\ InFlight
  /\ \/ \E t \in 1..NumItems : ToggleCheckbox(t)
     \/ ClearSelection

\* The host renders a row again during the run.
Rerender == InFlight /\ \E t \in 1..NumItems : HostAddRow(t)

BusyNext ==
  \/ Start
  \/ \E t \in 1..NumItems : Choose(t) \/ Collapse(t)
  \/ FirstClick
  \/ Meddle
  \/ Rerender
  \/ EngineStep
  \/ HostStep

BusySpec == BusyInit /\ [][BusyNext]_vars

\* --- the end-to-end scenarios: a host that renders what every click asks for
\* before any wait runs out, except that the menu of chat 2 may never open; one
\* worker, or the default two.
ScenarioInit ==
  /\ chats = 1..ScenarioItems
  /\ \E c \in {1, 2} :
       opts = [enabled |-> TRUE, stealth |-> TRUE, concurrency |-> Clamp(c)]
  /\ \E nm \in {{}, {2}} :
       host = [free |-> FALSE, noMenu |-> nm, testid |-> TRUE, cancelFirst |-> TRUE,
               newBtn |-> TRUE]
  /\ here = 0
  /\ probe = NoProbe
  /\ InitCommon

\* The user ticks the rows from the top.
Tick(t) == nruns = 0 /\ t = Len(selected) + 1 /\ ToggleCheckbox(t)

\* The user clicks "delete" with every row ticked.
ClickDeleteAll == Len(selected) = ScenarioItems /\ ClickDelete

ScenarioNext ==
  \/ Start
  \/ \E t \in 1..ScenarioItems : Tick(t)
  \/ ClickDeleteAll
  \/ PoolStep
  \/ \E r \in Runs : FinalWait(r)
  \/ HostStep

ScenarioSpec == ScenarioInit /\ [][ScenarioNext]_vars

\* ---------------------------------------------------------- properties
\* An invocation that took its snapshot.
HasSnapshot(r) == run[r].pc # "idle"

\* The pool of the invocation has ended: the summary is or was published.
Ended(r) == run[r].pc \in {"final", "done"}

\* A worker that is inside deleteViaUI.
Active(r, w) == run[r].pc = "pool" /\ wk[r][w].pc \notin {"idle", "done", "stagger"}

Snap(r) == log[r].snap

Failed(r) == {k \in DOMAIN log[r].res : log[r].res[k] = "fail"}

\* C1: a run whose snapshot has N items ends with processed = N and
\* N = succeeded + failed, at every concurrency and whichever steps time out.
C1_RunCountsAll ==
  \A r \in Runs : Ended(r) =>
    /\ run[r].processed = Len(Snap(r))
    /\ Len(Snap(r)) = run[r].ok + run[r].fail

\* A run at the highest concurrency has ended with a success and a failure.
C1_Witness ==
  \E r \in Runs : /\ Ended(r) /\ opts.concurrency = MaxConc
                   /\ run[r].ok > 0 /\ run[r].fail > 0

\* C2: each item of a snapshot is claimed by exactly one worker, the k-th claim
\* is the k-th item of the snapshot, an item that failed is not attempted again,
\* and no two workers are ever inside deleteViaUI for the same item.
C2_ClaimedOnceInOrder ==
  /\ \A r \in Runs : \A j \in 1..Len(log[r].claims) :
        /\ log[r].claims[j].k = j
        /\ j <= Len(Snap(r)) /\ log[r].claims[j].id = Snap(r)[j]
  /\ \A r \in Runs : Ended(r) => Len(log[r].claims) = Len(Snap(r))
  /\ \A r \in Runs, w \in Workers : Active(r, w) => log[r].res[wk[r][w].it] = "none"
  /\ \A r1, r2 \in Runs, w1, w2 \in Workers :
        (Active(r1, w1) /\ Active(r2, w2) /\ <<r1, w1>> # <<r2, w2>>)
          => Target(r1, w1) # Target(r2, w2)

\* C3: once an invocation has taken its snapshot no other one starts before it
\* finalizes, so at most one worker pool is active at any time.
C3_OnePoolActive == Cardinality({r \in Runs : run[r].pc = "pool"}) <= 1

\* C6: a failed item does not end the run: every failure is counted in failed,
\* and a run ends only when every item of its snapshot has been attempted.
C6_FailureDoesNotAbort ==
  \A r \in Runs :
    /\ HasSnapshot(r) => run[r].fail = Cardinality(Failed(r))
    /\ Ended(r) => \A k \in 1..Len(Snap(r)) : log[r].res[k] # "none"

\* A one-worker run has ended in which the first item failed and the second,
\* claimed after that failure, was deleted.
C6_Witness ==
  \E r \in Runs : /\ Ended(r) /\ opts.concurrency = 1
                   /\ Len(Snap(r)) = 2
                   /\ log[r].res[1] = "fail" /\ log[r].res[2] = "ok"

\* C8: when no invocation is running its pool or waiting to finalize, the
\* 'running' class is off the bar, however the items ended.
C8_RunningCleared ==
  (\A r \in Runs : run[r].pc \notin {"pool", "final"}) => ~bar.running

\* A run in which every item failed is complete.
C8_Witness ==
  \E r \in Runs : /\ run[r].pc = "done" /\ run[r].fail = Len(Snap(r))
                   /\ \A q \in Runs : run[q].pc \in {"idle", "done"}

\* C9: the step that ends an attempt (it increments processed) also removes the
\* item's id from the selection and, if its row is rendered with a checkbox,
\* leaves that checkbox unchecked.
C9_FinishDeselects ==
  [][\A r \in Runs : \A k \in DOMAIN log[r].res :
       (log[r].res[k] = "none" /\ log'[r].res[k] # "none") =>
         /\ run'[r].processed = run[r].processed + 1
         /\ Snap(r)[k] \notin Range(selected')
         /\ (Snap(r)[k] \in rows' /\ Snap(r)[k] \in hasCb') => Snap(r)[k] \notin checked']_vars

\* An attempt has failed on an item whose row is still rendered with its checkbox.
C9_Witness ==
  \E r \in Runs : \E k \in Failed(r) :
    /\ Snap(r)[k] \in rows /\ Snap(r)[k] \in hasCb
    /\ Snap(r)[k] \notin checked /\ Snap(r)[k] \notin Range(selected)

\* C4: three items are selected, the menu of item 2 never opens and the host
\* answers every other click in time: the run ends with two successes and one
\* failure, items 1 and 3 succeeded, item 2 failed and left the selection.
C4_MenuNeverOpens ==
  \A r \in Runs : (Ended(r) /\ ~host.free /\ host.noMenu = {2}) =>
    /\ run[r].ok = 2 /\ run[r].fail = 1
    /\ log[r].res = <<"ok", "fail", "ok">>
    /\ 2 \notin Range(selected)

\* C5: three items are selected and the host answers every click in time: the
\* run ends with three successes of three, an empty selection and, once it is
\* complete, no 'running' class.
C5_AllDeleted ==
  \A r \in Runs : (Ended(r) /\ ~host.free /\ host.noMenu = {}) =>
    /\ run[r].ok = 3 /\ Len(Snap(r)) = 3
    /\ selected = <<>>
    /\ run[r].pc = "done" => ~bar.running

\* C7: every invocation that took its snapshot reaches its finalization, which
\* follows the publication of its summary, when timers fire, whatever the host does.
C7_RunTerminates == \A r \in Runs : HasSnapshot(r) ~> (run[r].pc = "done")

\* A run is complete whose last item failed because its row never went away.
C7_Witness ==
  \E r \in Runs : run[r].pc = "done" /\ log[r].err = E_TIMEOUT /\ run[r].fail > 0
                   /\ log[r].res[Len(Snap(r))] = "fail"

\* C10: what a run attempts is the selection as it was when runBulkDelete took
\* its snapshot: its items, the ids its workers claim and its total are those of
\* the snapshot, whatever is ticked or unticked while the run is in flight.
C10_SnapshotIsolated ==
  \A r \in Runs : HasSnapshot(r) =>
    /\ run[r].items = Snap(r)
    /\ \A j \in 1..Len(log[r].claims) :
          j <= Len(Snap(r)) /\ log[r].claims[j].id = Snap(r)[j]
    /\ Ended(r) => Len(log[r].claims) = Len(Snap(r))
    /\ (run[r].pc \in {"pool", "final"} /\ pill # <<0, 0>>) => pill[2] = Len(Snap(r))

\* A worker is deleting the second item of its snapshot although the user
\* unticked it after the snapshot was taken.
C10_Witness ==
  \E r \in Runs, w \in Workers :
    /\ Active(r, w) /\ wk[r][w].it = 2
    /\ Target(r, w) \notin Range(selected)

\* ------------------------------------------------- the engine's operations
\* The operations called one by one, up to the launch of the workers: the
\* constructor with any concurrency, an enabled or a disabled engine, a host
\* with or without the "new chat" button, selection by checkbox and by the bar's
\* buttons over rows that come and go, and runBulkDelete called as a method.
AskedConc == {-3, 0, 1, 2, 3, 4, 5, 10}

ApiInit ==
  /\ chats = 1..NumItems
  /\ \E c \in AskedConc, e \in BOOLEAN :
       /\ opts = [enabled |-> e, stealth |-> TRUE, concurrency |-> Clamp(c)]
       /\ probe = [NoProbe EXCEPT !.asked = <<c>>]
  /\ \E nb \in BOOLEAN :
       host = [free |-> TRUE, noMenu |-> {}, testid |-> TRUE, cancelFirst |-> TRUE,
               newBtn |-> nb]
  /\ here \in {0, 1}
  /\ InitCommon

Rerendered(t) == nruns = 0 /\ HostAddRow(t)

ApiNext ==
  \/ Start
  \/ \E t \in 1..NumItems : Choose(t) \/ Collapse(t) \/ Rerendered(t)
  \/ SelectAll
  \/ ClearSelection
  \/ CallRunBulkDelete
  \/ \E r \in Runs : GuardDone(r)
  \/ \E k \in 1..Len(timers.flash) : FlashTimer(k)

ApiSpec == ApiInit /\ [][ApiNext]_vars

\* The workers runBulkDelete has created for invocation r.
Launched(r) == {w \in Workers : wk[r][w].pc # "idle"}

\* C11: when runBulkDelete is invoked while the location is the page of a
\* selected chat, that invocation presses the "new chat" button, or pushes the
\* neutral location when the page has no such button, and the location is not
\* a chat of the snapshot by the time a worker claims the first item.
C11_GuardBeforeAttempts ==
  [][\A r \in Runs :
       /\ (run[r].pc = "idle" /\ run'[r].pc # "idle" /\ here \in Range(selected))
            => /\ run'[r].nav = (IF host.newBtn THEN "newchat" ELSE "pushstate")
               /\ here' \notin Range(selected)
       /\ (log[r].claims = <<>> /\ log'[r].claims # <<>>)
            => here' \notin Range(log'[r].snap)]_vars

\* A worker has claimed an item after the soft navigation of the guard.
C11_Witness ==
  \E r \in Runs : run[r].nav = "pushstate" /\ run[r].pc = "pool" /\ log[r].claims # <<>>

\* C12: the engine keeps 1 for a concurrency below 1, 4 for one above 4 and the
\* value itself for 1..4, and an invocation creates that many workers.
C12_ConcurrencyClamped ==
  \A c \in Range(probe.asked) :
    LET n == IF c < 1 THEN 1 ELSE IF c > 4 THEN 4 ELSE c IN
    /\ opts.concurrency = n
    /\ \A r \in Runs : run[r].pc = "pool" => Cardinality(Launched(r)) = n

\* An engine constructed with concurrency 10 has launched its workers.
C12_Witness ==
  /\ probe.asked = <<10>>
  /\ \E r \in Runs : run[r].pc = "pool" /\ Cardinality(Launched(r)) = 4

\* C14: runBulkDelete called while the engine is disabled or nothing is selected
\* changes nothing: not the bar's running class and loader, the status text, the
\* progress pill, the stealth attribute, the selection and the checkboxes, the
\* location, and no invocation record or worker comes to be.
C14_NoOpWithoutPrecondition ==
  [][(CallRunBulkDelete /\ (~opts.enabled \/ selected = <<>>))
       => UNCHANGED <<bar, status, pill, stealthAttr, selected, checked, here, timers,
                      nruns, run, wk, log>>]_vars

\* runBulkDelete has returned at its precondition, once on a started engine
\* with rows to select and once on a disabled one.
C14_Witness ==
  /\ op = "noop" /\ life = "started"
  /\ (opts.enabled /\ hasCb # {} /\ selected = <<>>) \/ ~opts.enabled

\* C17: after clearSelection, whatever was selected by checkbox or by
\* "select all" before it, the selection is empty and no checkbox is checked.
C17_ClearEmpties ==
  op = "clear" => (selected = <<>> /\ checked = {})

\* clearSelection has acted on rows that carry checkboxes.
C17_Witness ==
  op = "clear" /\ hasCb = chats /\ selected = <<>> /\ bar.hidden

\* C18: selectAll over a sidebar without rows adds nothing to the selection,
\* checks and attaches no checkbox, shows the "nothing to select" text and sets
\* the 900 ms timer that restores the text it replaced.
C18_SelectAllNothing ==
  [][(SelectAll /\ rows = {})
       => /\ selected' = selected /\ checked' = checked /\ hasCb' = hasCb
          /\ status' = WarnText(E_NOTHING)
          /\ timers'.flash = Append(timers.flash, [prev |-> status, ms |-> FlashNothingMs])]_vars

\* selectAll has found no row and its message is on display.
C18_Witness ==
  /\ op = "selectAll" /\ rows = {}
  /\ status = WarnText(E_NOTHING) /\ timers.flash # <<>>

\* The items of invocation r that were claimed and whose attempt has not reached
\* processed++.
InFlightItems(r) == Len(log[r].claims) - run[r].processed

\* C13: at every moment of a run the items claimed and not yet processed are at
\* most the configured concurrency, at most 4, and at most the smaller of the
\* concurrency and the snapshot's size.
C13_BoundedInFlight ==
  \A r \in Runs :
    HasSnapshot(r) =>
      /\ InFlightItems(r) <= opts.concurrency
      /\ InFlightItems(r) <= 4
      /\ InFlightItems(r) <= Min(opts.concurrency, Len(Snap(r)))

\* Both items of a snapshot are in flight at once, and a third worker has
\* found nothing to claim.
C13_Witness ==
  \E r \in Runs :
    /\ opts.concurrency = 3 /\ Len(Snap(r)) = 2 /\ InFlightItems(r) = 2
    /\ wk[r][3].pc = "done"

\* C15: the summary is written by the step in which the last worker of a run
\* leaves its loop, and by no other step; then every item of the snapshot is
\* processed, and the text gives the run's succeeded count over the snapshot's
\* size, followed by the failed count exactly when that count is above 0.
C15_SummaryAfterAllSettled ==
  [][/\ \A r \in Runs :
          (run[r].pc = "pool" /\ Ended(r)')
            => /\ \A w \in Workers : wk'[r][w].pc \in {"idle", "done"}
               /\ run'[r].processed = Len(Snap(r))
               /\ status'.k = "done"
               /\ status'.a = run'[r].ok /\ status'.b = Len(Snap(r))
               /\ status'.c = (IF run'[r].fail > 0 THEN <<run'[r].fail>> ELSE <<>>)
     /\ (status'.k = "done" /\ status' # status)
          => \E r \in Runs : run[r].pc = "pool" /\ Ended(r)']_vars

\* A run has ended with one item deleted and one failed, and its summary with
\* the failure count is on display.
C15_Witness ==
  \E r \in Runs :
    /\ Ended(r) /\ run[r].ok = 1 /\ run[r].fail = 1
    /\ status = [k |-> "done", a |-> 1, b |-> 2, c |-> <<1>>]

\* C16: once an item of a run has failed, there comes a moment between two
\* steps of the page's thread at which the status element shows a failure
\* message.
C16_FailureShown ==
  \A r \in Runs : (run[r].fail > 0) ~> (status.k = "warn")

\* ------------------------------------------------------ paths and ids
\* A ref is a text over the characters below, with or without the page's
\* origin ("https://chatgpt.com") in front of it, as a.href and location.href
\* have it.  The letters and the hyphen are characters of an id.
IdChars == {"c", "g", "a", "-"}
RefChars == IdChars \cup {"/", "?"}
\* The longest text that is typed.
MaxRefLen == 4

RECURSIVE StripTrailing(_)
\* .replace(/\/+$/, '')
StripTrailing(p) ==
  IF p # <<>> /\ p[Len(p)] = "/" THEN StripTrailing(SubSeq(p, 1, Len(p) - 1)) ELSE p

RECURSIVE StripLeading(_)
\* The URL parser skips every slash between the scheme and the authority.
StripLeading(p) == IF p # <<>> /\ Head(p) = "/" THEN StripLeading(Tail(p)) ELSE p

\* The place of the first character of S in p, Len(p) + 1 when there is none.
First(p, S) ==
  IF \E i \in 1..Len(p) : p[i] \in S
    THEN CHOOSE i \in 1..Len(p) : p[i] \in S /\ \A j \in 1..(i - 1) : p[j] \notin S
    ELSE Len(p) + 1

\* split('?')[0], and where the parser ends the path
BeforeQuery(p) == SubSeq(p, 1, First(p, {"?"}) - 1)

\* What follows the host: the authority ends at the first slash or question mark.
AfterAuthority(p) == SubSeq(p, First(p, {"/", "?"}), Len(p))

\* new URL(href, location.origin).pathname.  A text that starts with two slashes
\* names its own host, and the parser fails when that host is empty; a text in
\* front of which the origin stands goes on with the host's name up to the first
\* slash; a text that starts with one slash is a path; any other text is
\* resolved against the origin's path "/".  The pathname is never empty.
Pathname(origin, rest) ==
  LET net == ~origin /\ Len(rest) >= 2 /\ rest[1] = "/" /\ rest[2] = "/"
      auth == IF net THEN StripLeading(rest) ELSE rest
      tail == IF origin \/ net THEN BeforeQuery(AfterAuthority(auth))
              ELSE IF rest # <<>> /\ Head(rest) = "/" THEN BeforeQuery(rest)
              ELSE <<"/">> \o BeforeQuery(rest)
  IN [throws |-> net /\ First(auth, {"/", "?"}) = 1,
      path |-> IF tail = <<>> THEN <<"/">> ELSE tail]

\* normalizePath: the pathname without its trailing slashes, and the text up to
\* the query without its trailing slashes when the parser throws.
NormalizePath(origin, rest) ==
  LET u == Pathname(origin, rest) IN
  IF u.throws THEN StripTrailing(BeforeQuery(rest)) ELSE StripTrailing(u.path)

\* The place of the last slash of p, 0 when there is none.
LastSep(p) ==
  IF \E i \in 1..Len(p) : p[i] = "/"
    THEN CHOOSE i \in 1..Len(p) : p[i] = "/" /\ \A j \in (i + 1)..Len(p) : p[j] # "/"
    ELSE 0

\* The pattern tied to the start of the path: ^\/c\/([a-z0-9-]+)\/?$
MatchIdAnchored(p) ==
  LET q == IF p # <<>> /\ p[Len(p)] = "/" THEN SubSeq(p, 1, Len(p) - 1) ELSE p
      j == LastSep(q)
      id == SubSeq(q, j + 1, Len(q))
  IN IF j = 3 /\ q[2] = "c" /\ q[1] = "/" /\ id # <<>> /\ Range(id) \subseteq IdChars
       THEN <<id>> ELSE <<>>

\* path.match(/\/c\/([a-z0-9-]+)\/?$/i): <<id>> for m[1], <<>> for no match.  An id
\* has no slash, so it is what follows the last slash (one slash at the end set
\* aside), and "/c" stands before that slash.
MatchId(p) ==
  LET q == IF p # <<>> /\ p[Len(p)] = "/" THEN SubSeq(p, 1, Len(p) - 1) ELSE p
      j == LastSep(q)
      id == SubSeq(q, j + 1, Len(q))
  IN IF j >= 3 /\ q[j - 1] = "c" /\ q[j - 2] = "/" /\ id # <<>> /\ Range(id) \subseteq IdChars
       THEN <<id>> ELSE <<>>

\* extractIdFromHref: null (<<>>) for an empty href
ExtractIdFromHref(origin, rest) ==
  IF ~origin /\ rest = <<>> THEN <<>> ELSE MatchId(NormalizePath(origin, rest))

\* A ref is typed, with the origin in front of it or not, and handed to
\* normalizePath or to extractIdFromHref.
PathInit ==
  /\ chats = 1..NumItems
  /\ opts = [enabled |-> TRUE, stealth |-> TRUE, concurrency |-> Clamp(2)]
  /\ host = [free |-> TRUE, noMenu |-> {}, testid |-> TRUE, cancelFirst |-> TRUE,
             newBtn |-> TRUE]
  /\ here = 0
  /\ \E o \in BOOLEAN : probe = [NoProbe EXCEPT !.origin = o]
  /\ InitCommon

engine == <<opts, host, op, life, hostVars, boxVars, selected, viewVars, runVars>>

TypeChar(ch) ==
  /\ probe.did = "none" /\ Len(probe.rest) < MaxRefLen
  /\ probe' = [probe EXCEPT !.rest = Append(@, ch)]
  /\ UNCHANGED engine

CallNormalizePath ==
  /\ probe.did = "none"
  /\ probe' = [probe EXCEPT !.path = NormalizePath(probe.origin, probe.rest),
                            !.did = "normalizePath"]
  /\ UNCHANGED engine

CallExtractId ==
  /\ probe.did = "none"
  /\ probe' = [probe EXCEPT !.id = ExtractIdFromHref(probe.origin, probe.rest),
                            !.did = "extractIdFromHref"]
  /\ UNCHANGED engine

PathNext ==
  \/ \E ch \in RefChars : TypeChar(ch)
  \/ CallNormalizePath
  \/ CallExtractId

PathSpec == PathInit /\ [][PathNext]_vars

Slash == <<"/">>
\* What may follow the id in a ref: nothing, a slash, a query, both.
Endings == {<<>>, Slash, <<"?", "a">>, <<"/", "?", "a">>}

\* No "c/" followed by a character of an id anywhere in the text.
NoIdSegment(p) ==
  ~ \E i \in 1..(Len(p) - 2) : p[i] = "c" /\ p[i + 1] = "/" /\ p[i + 2] \in IdChars

\* C19: for every id s and every segment x, extractIdFromHref gives s for
\* /c/s and for /g/x/c/s, with a slash, a query or both after it and with the
\* origin in front of it or not; it gives null for "/c/" and for every ref
\* that has no "c/" followed by a character of an id.
C19_ExtractId ==
  /\ (probe.rest # <<>> /\ Range(probe.rest) \subseteq IdChars) =>
       LET s == probe.rest IN
       \A e \in Endings, o \in BOOLEAN, x \in {<<"a">>, <<"c">>, s} :
         /\ ExtractIdFromHref(o, Slash \o <<"c">> \o Slash \o s \o e) = <<s>>
         /\ ExtractIdFromHref(o, Slash \o <<"g">> \o Slash \o x \o Slash \o <<"c">>
                                   \o Slash \o s \o e) = <<s>>
  /\ \A o \in BOOLEAN : ExtractIdFromHref(o, <<"/", "c", "/">>) = <<>>
  /\ (probe.did = "extractIdFromHref" /\ NoIdSegment(probe.rest)) => probe.id = <<>>

\* extractIdFromHref has returned the id of a typed ref, and null for another.
C19_Witness ==
  /\ probe.did = "extractIdFromHref"
  /\ \/ probe.rest = <<"/", "c", "/", "a">> /\ probe.id = << <<"a">> >>
     \/ probe.rest = <<"/", "g", "/", "a">> /\ probe.id = <<>>

\* C20: normalizePath applied to its own result gives that result again.
C20_NormalizeIdempotent ==
  probe.did = "normalizePath" => NormalizePath(FALSE, probe.path) = probe.path

\* ------------------------------------------------- the attempt's steps
\* Worker w of invocation r holds a delete entry or a confirm button it found
\* and is about to click it.
Holding(r, w) == run[r].pc = "pool" /\ wk[r][w].pc \in {"delclick", "confclick"}

\* C21: the delete entry a worker is about to click belongs to the menu of the
\* chat it claimed, and the confirm button it is about to click to the dialog
\* of that chat (or is the bar's own button, which belongs to no chat).
C21_OwnMenuAndDialog ==
  \A r \in Runs, w \in Workers :
    Holding(r, w) => wk[r][w].ref \in {Target(r, w), BAR}

\* The step of worker w of invocation r, if it moves the worker, is one of the
\* steps of the loop and of deleteViaUI in their order, taken on what the step
\* observed: a -> b below are the places before and after the step.
InOrder(r, w) ==
  LET a == wk[r][w].pc
      b == wk'[r][w].pc
  IN \/ a = b
     \/ a \in {"idle", "stagger"} /\ b \in {"row", "done"}
     \/ a = "row" /\ b = "btn" /\ Target(r, w) \in rows
     \/ a = "btn" /\ b = "click"
     \/ a = "click" /\ b = "menu"
     \/ a = "menu" /\ b = "del" /\ menu # 0
     \/ a = "menu" /\ b \in {"click", "omend"} /\ menu = 0
     \/ a = "omend" /\ b = "del" /\ menu # 0
     \/ a = "del" /\ b = "delclick" /\ menu # 0
     \/ a = "delclick" /\ b = "conf"
     \/ a = "conf" /\ b = "confclick" /\ (dialog # 0 \/ BarRendered)
     \/ a = "confclick" /\ b = "gone"
     \/ a = "gone" /\ b = "settle" /\ Target(r, w) \notin rows
     \/ /\ a = "settle" /\ b = "stagger"
        /\ log'[r].res[wk[r][w].it] = "ok"
     \/ /\ a \in {"row", "btn", "omend", "del", "conf", "gone"} /\ b = "stagger"
        /\ log'[r].res[wk[r][w].it] = "fail"

\* C22: an attempt goes through LocateRow, LocateTrigger, ScrollAndHover and
\* OpenMenu, LocateDeleteEntry, ClickDelete, LocateConfirm, ClickConfirm,
\* AwaitRowGone, Settle and CloseStraysIfAny in this order only; a step that
\* fails ends the attempt as failed; the delete entry is clicked only after
\* openMenu saw a menu, and the confirm button only after that click.
C22_StepsInOrder ==
  [][\A r \in Runs, w \in Workers : InOrder(r, w)]_vars

\* An attempt has passed every step up to Settle.
C22_Witness ==
  \E r \in Runs, w \in Workers : At(r, w, "settle") /\ wk[r][w].it = 2

\* The codes deleteViaUI names in its own errors.
NamedCodes == {E_ROW, E_BTN, E_MENU, E_MENUITEM, E_CONFIRM}

\* C23 as stated: whenever an attempt of an invocation has failed, the error it
\* threw carries one of the codes E_ROW, E_BTN, E_MENU, E_MENUITEM, E_CONFIRM.
C23_NamedCodeOnly ==
  \A r \in Runs : Failed(r) # {} => log[r].err \in NamedCodes

\* The error of the step at place a of deleteViaUI.
CodeOf(a) ==
  CASE a = "row" -> E_ROW
    [] a = "btn" -> E_BTN
    [] a = "omend" -> E_MENU
    [] a = "del" -> E_MENUITEM
    [] a = "conf" -> E_CONFIRM
    [] a = "gone" -> E_TIMEOUT

\* C23 amended: an attempt ends as a success, after Settle, or as a failure whose
\* error is the one of the step that failed: E_ROW, E_BTN, E_MENU, E_MENUITEM,
\* E_CONFIRM, and waitFor's own timeout when the row is still there at the end
\* of AwaitRowGone.
C23_CodeOfFailedStep ==
  [][\A r \in Runs, w \in Workers :
       (wk[r][w].pc # "stagger" /\ wk'[r][w].pc = "stagger")
         => LET k == wk[r][w].it IN
            IF wk[r][w].pc = "settle"
              THEN log'[r].res[k] = "ok" /\ log'[r].err = log[r].err
              ELSE /\ log'[r].res[k] = "fail"
                   /\ log'[r].err = CodeOf(wk[r][w].pc)
                   /\ (wk[r][w].pc = "gone") = (log'[r].err \notin NamedCodes)]_vars

\* An attempt has ended at AwaitRowGone with the row still in the sidebar.
C23_Witness ==
  \E r \in Runs, w \in Workers :
    /\ At(r, w, "stagger") /\ log[r].res[wk[r][w].it] = "fail"
    /\ log[r].err = E_TIMEOUT /\ Target(r, w) \in rows

\* C24: ok grows by one, and only in the step that ends an attempt after
\* Settle; Settle is reached only from AwaitRowGone by a poll that found the
\* item's row out of the sidebar, and AwaitRowGone only from the attempt's own
\* click on the confirm button it had found.
C24_SuccessOnlyAfterRowGone ==
  [][\A r \in Runs :
       /\ run'[r].ok # run[r].ok
            => /\ run'[r].ok = run[r].ok + 1
               /\ \E w \in Workers :
                    /\ wk[r][w].pc = "settle" /\ wk'[r][w].pc = "stagger"
                    /\ log[r].res[wk[r][w].it] = "none"
                    /\ log'[r].res[wk[r][w].it] = "ok"
       /\ \A w \in Workers :
            /\ (wk[r][w].pc # "settle" /\ wk'[r][w].pc = "settle")
                 => (wk[r][w].pc = "gone" /\ Target(r, w) \notin rows)
            /\ (wk[r][w].pc # "gone" /\ wk'[r][w].pc = "gone")
                 => (wk[r][w].pc = "confclick" /\ wk[r][w].ref # 0)]_vars

\* An item was counted as succeeded, and its row is out of the sidebar.
C24_Witness ==
  \E r \in Runs, k \in 1..NumItems :
    /\ run[r].ok = 1 /\ k \in DOMAIN log[r].res /\ log[r].res[k] = "ok"
    /\ Snap(r)[k] \notin rows

\* C25: a worker that waits for the confirm button while no confirmation dialog
\* is open leaves that wait only by failing with E_CONFIRM; it goes on to no
\* click on a confirm button.
C25_NoDialogFailsConfirm ==
  [][\A r \in Runs, w \in Workers :
       (At(r, w, "conf") /\ dialog = 0 /\ wk'[r][w].pc # "conf")
         => /\ wk'[r][w].pc = "stagger"
            /\ log'[r].res[wk[r][w].it] = "fail"
            /\ log'[r].err = E_CONFIRM]_vars

\* C26: openMenu clicks the options button at most clickRetries times, once
\* before each wait for a menu; after a wait that saw a menu it clicks no more
\* and returns; it returns only on a menu it saw, in a wait or after the loop;
\* it throws E_MENU after the last wait when no menu is open.  att counts the
\* waits that saw no menu.
C26_OpenMenuBounded ==
  [][\A r \in Runs, w \in Workers :
       LET a == wk[r][w].pc
           b == wk'[r][w].pc
           n == wk[r][w].att
           m == wk'[r][w].att
       IN /\ m <= ClickRetries
          /\ b \in {"click", "menu"} => m < ClickRetries
          /\ (a # "click" /\ b = "click") => a \in {"btn", "menu"}
          /\ (a = "click" /\ b # a) => (b = "menu" /\ m = n)
          /\ (a = "menu" /\ b = "click") => (menu = 0 /\ m = n + 1)
          /\ (a = "menu" /\ b = "omend") => (menu = 0 /\ m = n + 1 /\ m = ClickRetries)
          /\ (a \in {"menu", "omend"} /\ b = "del") => (menu # 0 /\ m = n)
          /\ (a = "omend" /\ b = "stagger")
               => (menu = 0 /\ log'[r].err = E_MENU /\ log'[r].res[wk[r][w].it] = "fail")
          /\ (a = "menu" /\ b # a) => b \in {"click", "omend", "del"}]_vars

\* openMenu has thrown E_MENU after clickRetries clicks.
C26_Witness ==
  \E r \in Runs, w \in Workers :
    /\ At(r, w, "stagger") /\ wk[r][w].att = ClickRetries
    /\ log[r].err = E_MENU /\ log[r].res[wk[r][w].it] = "fail"

\* C27: after every step, for every run: processed = ok + fail,
\* 0 <= processed <= total, processed is not below what it was, and while the
\* run's pool is active the pill shows its processed/total and the status text
\* the same counts.
C27_ProgressConsistent ==
  [][\A r \in Runs :
       LET rn == run'[r]
           total == Len(rn.items)
       IN rn.pc # "idle" =>
            /\ rn.processed = rn.ok + rn.fail
            /\ 0 <= rn.processed /\ rn.processed <= total
            /\ rn.processed >= run[r].processed
            /\ rn.pc = "pool" =>
                 /\ pill' = <<rn.processed, total>>
                 /\ status' = [k |-> "progress", a |-> rn.processed, b |-> total,
                               c |-> IF rn.fail > 0 THEN <<rn.fail>> ELSE <<>>]]_vars


\* ------------------------------------------------------------- waitFor
\* One call of waitFor(fn, timeout, step), with time counted in steps: a poll
\* sees the time since t0, what fn does (a truthy value, a falsy one, or it
\* throws) and settles the promise or sets the timer for the next poll.
\* The timeouts that are tried, in steps.
Timeouts == {-1, 0, 1, 2, 3}
\* The polls that are followed.
MaxPolls == 4
\* How many steps after a poll the next one runs at the latest; setTimeout is
\* never early.
MaxLate == 2
Outcomes == {"truthy", "falsy", "throws"}
\* The truthy values fn returns.
Values == {1, 2}

\* The deadline is tested before fn is called.
WaitLoopDeadlineFirst(wt, o, v, el) ==
  IF el > wt.timeout
    THEN [wt EXCEPT !.rejected = @ + 1, !.armed = FALSE]
    ELSE LET seen == [wt EXCEPT !.polls = Append(@, [o |-> o, at |-> el])] IN
         IF o = "truthy"
           THEN [seen EXCEPT !.resolved = Append(@, v), !.armed = FALSE]
           ELSE [seen EXCEPT !.armed = TRUE]

\* loop(): try { res = fn() } catch {}; if (res) return resolve(res);
\* if (performance.now() - t0 > timeout) return reject(...); setTimeout(loop, step)
WaitLoop(wt, o, v, el) ==
  LET seen == [wt EXCEPT !.polls = Append(@, [o |-> o, at |-> el])] IN
  IF o = "truthy"
    THEN [seen EXCEPT !.resolved = Append(@, v), !.armed = FALSE]
    ELSE IF el > wt.timeout
           THEN [seen EXCEPT !.rejected = @ + 1, !.armed = FALSE]
           ELSE [seen EXCEPT !.armed = TRUE]

\* waitFor is called: t0 is taken and loop() is about to run for the first time.
WaitInit ==
  /\ chats = 1..NumItems
  /\ opts = [enabled |-> TRUE, stealth |-> TRUE, concurrency |-> Clamp(2)]
  /\ host = [free |-> TRUE, noMenu |-> {}, testid |-> TRUE, cancelFirst |-> TRUE,
             newBtn |-> TRUE]
  /\ here = 0
  /\ \E t \in Timeouts :
       probe = [NoProbe EXCEPT !.did = "waitFor", !.wait.timeout = t, !.wait.armed = TRUE]
  /\ InitCommon

\* The time since t0 at the last poll.
LastAt(wt) == wt.polls[Len(wt.polls)].at

\* loop() runs: at once for the first poll (fn itself may take time), a step or
\* more after the last poll for the others.
WaitPoll ==
  /\ probe.did = "waitFor" /\ probe.wait.armed /\ Len(probe.wait.polls) < MaxPolls
  /\ \E o \in Outcomes, d \in 1..MaxLate :
       \E v \in (IF o = "truthy" THEN Values ELSE {0}) :
         LET el == IF probe.wait.polls = <<>> THEN d - 1 ELSE LastAt(probe.wait) + d
         IN probe' = [probe EXCEPT !.wait = WaitLoop(@, o, v, el)]
  /\ UNCHANGED engine

WaitSpec == WaitInit /\ [][WaitPoll]_vars

\* C28: a waitFor that has settled has called fn at least once; it has resolved
\* with the value of the first poll at which fn was truthy, or rejected at the
\* first poll at which fn was falsy or threw with the timeout exceeded, and not
\* both; as long as it has not settled, no poll was truthy and none was past
\* the timeout.
C28_WaitFor ==
  probe.did = "waitFor" =>
    LET wt == probe.wait
        n == Len(wt.polls)
        Waits(k) == wt.polls[k].o # "truthy" /\ wt.polls[k].at <= wt.timeout
    IN /\ Len(wt.resolved) + wt.rejected <= 1
       /\ (wt.resolved # <<>> \/ wt.rejected > 0) => n >= 1
       /\ wt.armed = (wt.resolved = <<>> /\ wt.rejected = 0)
       /\ wt.armed => \A k \in 1..n : Waits(k)
       /\ wt.resolved # <<>> =>
            /\ wt.polls[n].o = "truthy"
            /\ \A k \in 1..(n - 1) : Waits(k)
       /\ wt.rejected > 0 =>
            /\ wt.polls[n].o \in {"falsy", "throws"} /\ wt.polls[n].at > wt.timeout
            /\ \A k \in 1..(n - 1) : Waits(k)

\* A waitFor with a timeout of 0 has rejected at its second poll, after fn
\* threw at the first.
C28_Witness ==
  /\ probe.wait.timeout = 0 /\ probe.wait.rejected = 1
  /\ Len(probe.wait.polls) = 2 /\ probe.wait.polls[1].o = "throws"

\* ------------------------------------------------- the close of strays
\* C29: an attempt that fails ends with safeCloseMenus, before its worker takes
\* its next item, and the run goes on; when the worker takes that next item, no
\* menu and no dialog of the chat whose attempt failed is open.
C29_CleanAfterFailure ==
  [][\A r \in Runs, w \in Workers :
       LET it == wk[r][w].it IN
       /\ (wk[r][w].pc # "stagger" /\ wk'[r][w].pc = "stagger" /\ log'[r].res[it] = "fail")
            => /\ menu' = SafeCloseMenus.menu /\ dialog' = SafeCloseMenus.dialog
               /\ run'[r].pc = "pool"
       /\ (At(r, w, "stagger") /\ log[r].res[it] = "fail" /\ wk'[r][w].pc = "row")
            => menu # Target(r, w) /\ dialog # Target(r, w)]_vars

\* Worker w of run r is between OpenMenu and ClickDelete with the menu of its
\* own chat open.
UsesMenu(r, w) ==
  run[r].pc = "pool" /\ wk[r][w].pc \in {"del", "delclick"} /\ menu = Target(r, w)

\* Worker w of run r is between ClickDelete and ClickConfirm with the dialog of
\* its own chat open.
UsesDialog(r, w) ==
  run[r].pc = "pool" /\ wk[r][w].pc \in {"conf", "confclick"} /\ dialog = Target(r, w)

\* C30: the safeCloseMenus at the end of one worker's attempt, failed or not,
\* leaves open the menu and the dialog that another worker of the run is using.
C30_StrayCloseSparesOthers ==
  [][\A r \in Runs, w \in Workers :
       (wk[r][w].pc # "stagger" /\ wk'[r][w].pc = "stagger") =>
         \A x \in Workers \ {w} :
           /\ UsesMenu(r, x) => menu' = menu
           /\ UsesDialog(r, x) => dialog' = dialog]_vars

\* ------------------------------------------- the dialog's first button
\* The buttons of the host's confirmation dialog in document order: a cancel
\* button with or without the class btn-secondary, and the confirm button,
\* which carries the test id.
Cancels == {[role |-> "cancel", secondary |-> TRUE], [role |-> "cancel", secondary |-> FALSE]}
Confirm == [role |-> "confirm", secondary |-> FALSE]
Layouts == {<<c, Confirm>> : c \in Cancels} \cup {<<Confirm, c>> : c \in Cancels}

\* querySelector('button.btn-secondary,button'): the first element in document
\* order that matches one of the selectors of the list; every button matches
\* the second.
RECURSIVE QueryFirst(_)
QueryFirst(btns) ==
  IF btns = <<>> THEN [role |-> "none", secondary |-> FALSE]
  ELSE IF btns[1].secondary \/ TRUE THEN btns[1]
  ELSE QueryFirst(Tail(btns))

\* One run on one worker, on a host whose dialog has one of the layouts.
CloseInit ==
  /\ chats = 1..NumItems
  /\ opts = [enabled |-> TRUE, stealth |-> TRUE, concurrency |-> Clamp(1)]
  /\ \E lay \in Layouts :
       /\ probe = [NoProbe EXCEPT !.btns = lay]
       /\ host = [free |-> TRUE, noMenu |-> {}, testid |-> TRUE,
                  cancelFirst |-> (QueryFirst(lay).role = "cancel"), newBtn |-> TRUE]
  /\ here = 0
  /\ InitCommon

CloseNext ==
  \/ Start
  \/ \E t \in 1..NumItems : Choose(t)
  \/ FirstClick
  \/ PoolStep
  \/ \E r \in Runs : FinalWait(r)
  \/ HostStep

CloseSpec == CloseInit /\ [][CloseNext]_vars

\* C31: the safeCloseMenus at the end of an attempt, with a dialog open, asks
\* the host for no deletion, whatever the order of the dialog's buttons and
\* whether or not its cancel button has the class btn-secondary.
C31_CloseNeverDeletes ==
  [][\A r \in Runs, w \in Workers :
       (wk[r][w].pc # "stagger" /\ wk'[r][w].pc = "stagger" /\ dialog # 0)
         => pend'.del = pend.del]_vars

\* ------------------------------------------------- the stealth option
\* Runs with the stealth option on or off, on one worker or two, with a chat
\* open or none.
StealthInit ==
  /\ chats = 1..NumItems
  /\ \E c \in {1, 2}, st \in BOOLEAN :
       opts = [enabled |-> TRUE, stealth |-> st, concurrency |-> Clamp(c)]
  /\ host = [free |-> TRUE, noMenu |-> {}, testid |-> TRUE, cancelFirst |-> TRUE,
             newBtn |-> TRUE]
  /\ here \in {0, 1}
  /\ probe = NoProbe
  /\ InitCommon

StealthSpec == StealthInit /\ [][Next]_vars

\* C32: the step that ends a run, whatever its items' outcomes, leaves the
\* stealth attribute off and the loader hidden; the stealth attribute is on
\* only with the stealth option on and only after a step that leaves a run
\* between the start of its pool and its finalization.
C32_FinalizationClears ==
  [][/\ \A r \in Runs :
          (run[r].pc # "done" /\ run'[r].pc = "done") => ~stealthAttr' /\ ~bar'.loader
     /\ stealthAttr' =>
          /\ opts.stealth
          /\ \E r \in Runs : run'[r].pc \in {"pool", "final"} /\ bar'.running]_vars

\* A run with the stealth option on has ended with a failed item, and the
\* stealth attribute is off and the loader hidden.
C32_Witness ==
  \E r \in Runs :
    /\ run[r].pc = "done" /\ run[r].fail > 0 /\ opts.stealth
    /\ \A x \in Runs : run[x].pc \in {"idle", "done"}
    /\ ~stealthAttr /\ ~bar.loader

\* ----------------------------------------------------- a run after a run
\* No run is in flight.
AllSettled == \A r \in Runs : run[r].pc \in {"idle", "done"}

AgainInit ==
  /\ chats = 1..NumItems
  /\ opts = [enabled |-> TRUE, stealth |-> TRUE, concurrency |-> Clamp(1)]
  /\ host = [free |-> TRUE, noMenu |-> {}, testid |-> TRUE, cancelFirst |-> TRUE,
             newBtn |-> TRUE]
  /\ here = 0
  /\ probe = NoProbe
  /\ InitCommon

\* After the first run has ended the user ticks rows again.
Retick(t) == nruns = 1 /\ AllSettled /\ ToggleCheckbox(t)

\* The user clicks "delete" again after the first run has ended.
SecondClick == nruns = 1 /\ AllSettled /\ ClickDelete

AgainNext ==
  \/ Start
  \/ \E t \in 1..NumItems : Choose(t) \/ Retick(t)
  \/ FirstClick
  \/ SecondClick
  \/ PoolStep
  \/ \E r \in Runs : FinalWait(r)
  \/ HostStep

AgainSpec == AgainInit /\ [][AgainNext]_vars

\* C33: while a run is in its pool, a step that is not a step of that run
\* leaves the status text and the pill as the run published them.
C33_ClearSparesLaterRun ==
  [][\A r \in Runs :
       (run[r].pc = "pool" /\ run'[r] = run[r] /\ wk'[r] = wk[r])
         => status' = status /\ pill' = pill]_vars

\* ----------------------------------------------------- the tree watcher
\* C34: a change of the tree by the host, with the observer's callback that
\* follows it, gives every rendered row a checkbox and leaves the selection,
\* the runs' items, cursors and counters, the workers' places, the number of
\* runs and the bar with its 'running' class as they were.
C34_NotificationOnlyAttaches ==
  [][(HostStep \/ Rerender \/ \E t \in 1..NumItems : Collapse(t)) =>
       /\ life # "new" => rows' \subseteq hasCb'
       /\ UNCHANGED <<selected, run, wk, nruns, log, bar, status, pill>>]_vars

\* During a run the host has rendered again the row of a selected chat, and
\* the row carries a new checkbox.
C34_Witness ==
  \E r \in Runs, t \in rows \cap hasCb :
    /\ run[r].pc = "pool" /\ run[r].i < Len(run[r].items)
    /\ t \in Range(selected) /\ t \notin checked

\* C35: when no click is waiting for the host, every rendered row that carries
\* a checkbox has it checked if and only if its id is in the selection.
C35_CheckboxMirrorsSelection ==
  Quiescent => \A t \in rows \cap hasCb : (t \in checked) <=> (t \in Range(selected))

\* ---------------------------------------------------------------- stop()
StopInit ==
  /\ chats = 1..NumItems
  /\ opts = [enabled |-> TRUE, stealth |-> TRUE, concurrency |-> Clamp(2)]
  /\ host = [free |-> TRUE, noMenu |-> {}, testid |-> TRUE, cancelFirst |-> TRUE,
             newBtn |-> TRUE]
  /\ here \in {0, 1}
  /\ probe = NoProbe
  /\ InitCommon

\* stop(): manager.detach() removes every checkbox and clears the map; the
\* observer set up by bindGlobal is not disconnected, so its callback runs
\* after the removals.  The bar stays as it was (no updateBar).
Stop ==
  /\ life = "started"
  /\ life' = "stopped"
  /\ selected' = <<>>
  /\ checked' = {}
  /\ hasCb' = Notify({}, rows)
  /\ op' = "none"
  /\ UNCHANGED <<setup, hostVars, viewVars, runVars>>

StopNext ==
  \/ Start
  \/ \E t \in 1..NumItems : Choose(t) \/ Collapse(t) \/ Rerendered(t)
  \/ Stop

StopSpec == StopInit /\ [][StopNext]_vars

\* C36: once stop() has run no row carries a checkbox of the engine and the
\* selection is empty, whatever the host renders afterwards.
C36_StoppedStaysDetached ==
  life = "stopped" => hasCb = {} /\ selected = <<>>

\* ------------------------------------------- attachCheckboxes, repeated
\* The rows of the sidebar one by one: which of them are rendered, which have
\* an href that extractIdFromHref finds an id in, and how many checkboxes each
\* carries; whether mutation records wait for the observer's callback, and how
\* many callbacks have run since the last change that was not the callback's own.
MaxRows == 3
WatchRows == 1..MaxRows

\* An attachCheckboxes without the test for a checkbox already in the row.
AttachAgain(wt) ==
  [wt EXCEPT !.n = [t \in WatchRows |->
                      IF t \in wt.rendered /\ t \in wt.ids THEN wt.n[t] + 1 ELSE wt.n[t]]]

\* rows.forEach: a row that has a checkbox is skipped, and so is a row without
\* an id; the others get one checkbox.
AttachEach(wt) ==
  [wt EXCEPT !.n = [t \in WatchRows |->
                      IF t \in wt.rendered /\ wt.n[t] = 0 /\ t \in wt.ids THEN 1 ELSE wt.n[t]]]

WatchInit ==
  /\ chats = 1..NumItems
  /\ opts = [enabled |-> TRUE, stealth |-> TRUE, concurrency |-> Clamp(2)]
  /\ host = [free |-> TRUE, noMenu |-> {}, testid |-> TRUE, cancelFirst |-> TRUE,
             newBtn |-> TRUE]
  /\ here = 0
  /\ \E ids \in SUBSET WatchRows, rd \in SUBSET WatchRows :
       probe = [NoProbe EXCEPT !.did = "watch",
                               !.watch = [ids |-> ids, rendered |-> rd,
                                          n |-> [t \in WatchRows |-> 0],
                                          queued |-> FALSE, streak |-> 0]]
  /\ InitCommon

\* The host renders row t: a new element, without a checkbox.
WatchRender(t) ==
  /\ probe.did = "watch" /\ t \notin probe.watch.rendered
  /\ probe' = [probe EXCEPT !.watch.rendered = @ \cup {t}, !.watch.n[t] = 0,
                            !.watch.queued = TRUE, !.watch.streak = 0]
  /\ UNCHANGED engine

\* The host removes row t with what it carries.
WatchRemove(t) ==
  /\ probe.did = "watch" /\ t \in probe.watch.rendered
  /\ probe' = [probe EXCEPT !.watch.rendered = @ \ {t}, !.watch.n[t] = 0,
                            !.watch.queued = TRUE, !.watch.streak = 0]
  /\ UNCHANGED engine

\* attachCheckboxes called by the engine (start, the end of a run); the
\* checkboxes it inserts are changes of the tree.
WatchAttach ==
  /\ probe.did = "watch"
  /\ LET wt == AttachEach(probe.watch) IN
       probe' = [probe EXCEPT !.watch = [wt EXCEPT !.queued = @ \/ wt.n # probe.watch.n,
                                                   !.streak = 0]]
  /\ UNCHANGED engine

\* The observer's callback takes the records that wait and calls
\* attachCheckboxes; the checkboxes it inserts are changes of the tree again.
WatchCallback ==
  /\ probe.did = "watch" /\ probe.watch.queued
  /\ LET wt == AttachEach(probe.watch) IN
       probe' = [probe EXCEPT !.watch = [wt EXCEPT !.queued = (wt.n # probe.watch.n),
                                                   !.streak = @ + 1]]
  /\ UNCHANGED engine

WatchNext ==
  \/ \E t \in WatchRows : WatchRender(t) \/ WatchRemove(t)
  \/ WatchAttach
  \/ WatchCallback

WatchSpec == WatchInit /\ [][WatchNext]_vars

\* C37: no row carries more than one checkbox and only a rendered row with an
\* id carries one; after a change of the tree at most two callbacks run, the
\* second of which changes nothing, and once a callback has run and no record
\* waits, another attachCheckboxes would change nothing.
C37_AttachIdempotent ==
  probe.did = "watch" =>
    LET wt == probe.watch IN
    /\ \A t \in WatchRows :
         /\ wt.n[t] <= 1
         /\ wt.n[t] = 1 => t \in wt.ids /\ t \in wt.rendered
    /\ wt.streak <= 2
    /\ wt.streak = 2 => ~wt.queued
    /\ (wt.streak >= 1 /\ ~wt.queued) => AttachEach(wt) = wt

\* After a row with an id was rendered, two callbacks have run and no record
\* waits: the row has its one checkbox, and a rendered row without an id none.
C37_Witness ==
  /\ probe.did = "watch" /\ probe.watch.streak = 2 /\ ~probe.watch.queued
  /\ \E t \in probe.watch.rendered : probe.watch.n[t] = 1
  /\ \E t \in probe.watch.rendered : t \notin probe.watch.ids /\ probe.watch.n[t] = 0
====
